---- MODULE Spec2Model ----
(***************************************************************************)
(* A model of the sports-prediction training pipelines                     *)
(* (ml-service/train_model.py, scripts/ml/train_model.py), of the model    *)
(* registry they write, of the prediction service (ml-service/serve.py),   *)
(* and of the play-by-play collector (scripts/nflfastR/collect-pbp.py).    *)
(*                                                                         *)
(* The specifications share the variables below:                           *)
(*   SpecRegistry  sequences of save_models calls, write by write, with    *)
(*                 the wall clock and write failures                       *)
(*   SpecSaves     the same on a disk that takes every write               *)
(*   SpecProduction  sequences of save_production_model calls              *)
(*   SpecTrain     one training run of either pipeline, from loading the   *)
(*                 batch to the saved artifact set                         *)
(*   SpecFeatures  the derived features of one game, as the training       *)
(*                 engineer_features and as the serving predict compute    *)
(*                 them                                                    *)
(*   SpecServe     load_models at startup followed by requests to the      *)
(*                 endpoints                                               *)
(*   SpecExtract   feature extraction of either pipeline on one batch of   *)
(*                 records                                                 *)
(*   SpecManifest  two successive runs, each extracting the features of a  *)
(*                 batch of its own                                        *)
(*   SpecBlend     the weighted blend of the three variants' probabilities *)
(*                 for one test row, in binary64 arithmetic                *)
(*   SpecDeploy    a ml-service training run on an empty models directory, *)
(*                 then the service started on that directory              *)
(*   SpecConnections  calls of NFLDataCollector.run and of                 *)
(*                 load_prediction_data, with the connections they open    *)
(***************************************************************************)
EXTENDS Integers, Sequences, FiniteSets, TLC

VARIABLES
    \* ---- the models directory and the clock
    files,      \* path -> content record of every file on disk
    now,        \* the wall clock, in ticks (TicksPerSecond ticks a second)
    sv,         \* the save call in progress, or NoSave
    saves,      \* the save calls that returned or raised, in order (history)
    \* ---- one training run
    pipeline,   \* "ml-service" (ComprehensiveMLPipeline.run) or "scripts" (main)
    pc,         \* position of the run
    args,       \* the command line: sport, min_games
    HAS_XGBOOST,\* whether the xgboost library can be imported
    df,         \* row ids of the loaded batch
    positives,  \* row ids of the loaded batch whose label is 1 (wasCorrect)
    X,          \* row ids of the feature matrix
    test,       \* row ids of the test partition
    scalerFit,  \* row ids the scaler's mean/scale were computed from
    fitCount,   \* number of scaler.fit calls so far
    fitted,     \* the variants whose fit() was called
    results,    \* variant name -> metric report, in insertion order (a sequence)
    best,       \* the selected variant
    exitCode,   \* exit status of the process, or Running
    \* ---- derived features of one game
    game,       \* the raw fields of the game
    trainFeat,  \* what engineer_features derives from them
    serveFeat,  \* what predict derives from them
    \* ---- the prediction service
    models,     \* the module-level cache `models`: key -> loaded object
    encoders,   \* the module-level cache `encoders`: key -> fitted classes_
    started,    \* whether the startup event has run
    serving,    \* whether the application accepts requests
    response,   \* the last response of the service
    \* ---- feature extraction on batches of records
    batch,      \* the batch the next extraction works on, or NoBatch
    pending,    \* the batch of the run after that, or NoBatch
    runs,       \* the extractions made so far, in order (history)
    \* ---- the weighted blend of the trained variants
    proba,      \* variant -> predicted probability of one test row, or NoProba
    ensemble,   \* the blended probability and prediction of that row
    \* ---- database connections
    conns,      \* the connections that are open (handles)
    job         \* the procedure that is running, and its position

registryVars == <<files, now, sv, saves>>
trainVars ==
    <<pipeline, pc, args, HAS_XGBOOST, df, positives, X, test, scalerFit, fitCount, fitted,
      results, best, exitCode>>
featureVars == <<game, trainFeat, serveFeat>>
serveVars == <<models, encoders, started, serving, response>>
extractVars == <<batch, pending, runs>>
blendVars == <<proba, ensemble>>
connVars == <<conns, job>>
vars ==
    <<registryVars, trainVars, featureVars, serveVars, extractVars, blendVars, connVars>>

-----------------------------------------------------------------------------
(* Bounds of the model *)

\* The clock runs from tick 0 to MaxTick.
MaxTick == 2
\* Clock ticks in one second: the resolution of datetime.now() is finer than
\* the "%Y%m%d_%H%M%S" of the version id.
TicksPerSecond == 2
\* Save calls in one behaviour of SpecRegistry.
MaxSaves == 2

-----------------------------------------------------------------------------
(* The models directory *)

Sports == {"NFL", "NCAAF"}

\* str.lower() on the sport tags
Lower(sport) == IF sport = "NFL" THEN "nfl" ELSE "ncaaf"

\* datetime.now().strftime("%Y%m%d_%H%M%S"): the clock cut to whole seconds
Timestamp(t) == ToString(t \div TicksPerSecond)

ModelVersion(t) == "v" \o Timestamp(t)

\* datetime.now().isoformat(): the clock at its full resolution
IsoFormat(t) == ToString(t)

ModelFileName(sport, model_name, model_version) ==
    sport \o "_" \o model_name \o "_" \o model_version \o ".joblib"

\* The scaler file named without the sport.
ScalerFileNameShared(sport, model_version) == "scaler_" \o model_version \o ".joblib"

ScalerFileName(sport, model_version) ==
    sport \o "_scaler_" \o model_version \o ".joblib"

MetadataFileName(sport, model_version) ==
    sport \o "_metadata_" \o model_version \o ".json"

\* The mutant of LatestFileName with one alias for all sports.
LatestFileNameShared(sport) == "latest.json"

LatestFileName(sport) == sport \o "_latest.json"

ProductionModelPath(sport, model_name) ==
    Lower(sport) \o "_" \o model_name \o "_model.pkl"

ProductionScalerPath(sport) == Lower(sport) \o "_scaler.pkl"

ProductionFeaturesPath(sport) == Lower(sport) \o "_features.json"

\* joblib.dump(obj, path) / open(path, 'w') + json.dump: the file is created
\* or replaced; no other file changes.
WriteFile(fs, path, content) ==
    [p \in DOMAIN fs \cup {path} |-> IF p = path THEN content ELSE fs[p]]

\* What a write that raised partway leaves behind.
Truncated == [type |-> "truncated"]

NoSave == [active |-> FALSE]
NoMeta == [type |-> "none"]

\* The keys of the models dict train_ensemble returns, in insertion order.
EnsembleModels == <<"random_forest", "xgboost", "logistic_regression">>
\* The keys of the metrics dict train_ensemble returns.
EnsembleMetrics == {"random_forest", "xgboost", "logistic_regression", "ensemble"}

Range(s) == {s[i] : i \in DOMAIN s}

\* The metadata dict of save_models.
Metadata(s, t) ==
    [type |-> "metadata",
     sport |-> s.sport,
     model_version |-> s.version,
     trained_at |-> IsoFormat(t),
     feature_names |-> s.id,
     metrics |-> s.metrics,
     model_files |-> {ModelFileName(s.sport, m, s.version) : m \in Range(s.models)},
     scaler_file |-> ScalerFileName(s.sport, s.version)]

\* The metadata dict of save_production_model (`features` stands for the
\* list and for feature_count, its length).
ProductionMetadata(s, t) ==
    [type |-> "metadata",
     sport |-> s.sport,
     model_type |-> s.models[1],
     features |-> s.id,
     trained_at |-> IsoFormat(t),
     metrics |-> s.metrics]

\* save_models writing the metadata and the alias before the models.
SaveModelsPlanMetadataFirst(model_names) ==
    <<[op |-> "metadata", name |-> ""], [op |-> "latest", name |-> ""]>>
        \o [i \in 1..Len(model_names) |-> [op |-> "model", name |-> model_names[i]]]
        \o <<[op |-> "scaler", name |-> ""]>>

\* The writes of save_models, in program order.
SaveModelsPlan(model_names) ==
    [i \in 1..Len(model_names) |-> [op |-> "model", name |-> model_names[i]]]
        \o <<[op |-> "scaler", name |-> ""],
             [op |-> "metadata", name |-> ""],
             [op |-> "latest", name |-> ""]>>

\* The writes of save_production_model, in program order.
SaveProductionPlan(model_name) ==
    <<[op |-> "model", name |-> model_name],
      [op |-> "scaler", name |-> ""],
      [op |-> "metadata", name |-> ""]>>

\* save_models up to its first write: the version id is read off the clock once.
SaveModelsCall(model_names, metric_names, sport, id) ==
    [active |-> TRUE, kind |-> "save_models", sport |-> sport,
     version |-> ModelVersion(now), models |-> model_names,
     metrics |-> metric_names, id |-> id,
     plan |-> SaveModelsPlan(model_names), i |-> 1, meta |-> NoMeta,
     second |-> now \div TicksPerSecond, before |-> files]

\* save_production_model up to its first write.
SaveProductionCall(model_name, sport, id) ==
    [active |-> TRUE, kind |-> "save_production_model", sport |-> sport,
     version |-> "", models |-> <<model_name>>,
     metrics |-> {model_name}, id |-> id,
     plan |-> SaveProductionPlan(model_name), i |-> 1, meta |-> NoMeta,
     second |-> now \div TicksPerSecond, before |-> files]

\* The path the current write of the save in progress goes to.
StepPath(s) ==
    LET st == s.plan[s.i] IN
    IF s.kind = "save_models"
    THEN CASE st.op = "model" -> ModelFileName(s.sport, st.name, s.version)
           [] st.op = "scaler" -> ScalerFileName(s.sport, s.version)
           [] st.op = "metadata" -> MetadataFileName(s.sport, s.version)
           [] st.op = "latest" -> LatestFileName(s.sport)
    ELSE CASE st.op = "model" -> ProductionModelPath(s.sport, st.name)
           [] st.op = "scaler" -> ProductionScalerPath(s.sport)
           [] st.op = "metadata" -> ProductionFeaturesPath(s.sport)

\* The metadata dict as of the current write: built once, right before the
\* metadata file is written, and reused for the latest alias.
StepMeta(s) ==
    IF s.plan[s.i].op = "metadata"
    THEN IF s.kind = "save_models" THEN Metadata(s, now) ELSE ProductionMetadata(s, now)
    ELSE s.meta

\* What the current write puts into its file.
StepContent(s) ==
    LET st == s.plan[s.i] IN
    CASE st.op = "model" -> [type |-> "model", name |-> st.name, id |-> s.id]
      [] st.op = "scaler" -> [type |-> "scaler", id |-> s.id]
      [] st.op = "metadata" -> StepMeta(s)
      [] st.op = "latest" -> s.meta

\* The record of a finished save call.
Finished(s, outcome) ==
    [kind |-> s.kind, sport |-> s.sport, version |-> s.version, id |-> s.id,
     models |-> s.models, meta |-> s.meta, outcome |-> outcome,
     second |-> s.second, before |-> s.before]

\* One write of the save in progress succeeds; after the last one the call
\* returns (to the run that made it, when a run did).
SaveWrite ==
    /\ sv.active
    /\ files' = WriteFile(files, StepPath(sv), StepContent(sv))
    /\ LET s == [sv EXCEPT !.meta = StepMeta(sv)] IN
       IF sv.i = Len(sv.plan)
       THEN /\ sv' = NoSave
            /\ saves' = Append(saves, Finished(s, "ok"))
       ELSE /\ sv' = [s EXCEPT !.i = @ + 1]
            /\ saves' = saves
    /\ now' = now
    /\ pc' = IF pc = "saving" /\ sv.i = Len(sv.plan) THEN "saved" ELSE pc
    /\ UNCHANGED <<pipeline, args, HAS_XGBOOST, positives, fitted, df, X, test, scalerFit, fitCount, results, best, exitCode>>
    /\ UNCHANGED <<featureVars, extractVars, blendVars, connVars, serveVars>>

\* One write of the save in progress raises (disk full, permissions): the
\* exception leaves the save call, and the run that made the call, uncaught;
\* the file being written is untouched or left truncated, the files written
\* before stay.
SaveWriteFails ==
    /\ sv.active
    /\ \E partial \in BOOLEAN :
         files' = IF partial THEN WriteFile(files, StepPath(sv), Truncated) ELSE files
    /\ sv' = NoSave
    /\ saves' = Append(saves, Finished(sv, "failed"))
    /\ now' = now
    /\ pc' = IF pc = "saving" THEN "raised" ELSE pc
    /\ exitCode' = IF pc = "saving" THEN 1 ELSE exitCode
    /\ UNCHANGED <<pipeline, args, HAS_XGBOOST, positives, fitted, df, X, test, scalerFit, fitCount, results, best>>
    /\ UNCHANGED <<featureVars, extractVars, blendVars, connVars, serveVars>>

\* Time passes.
Tick ==
    /\ now < MaxTick
    /\ now' = now + 1
    /\ UNCHANGED <<files, sv, saves, trainVars, featureVars, extractVars, blendVars, connVars, serveVars>>

\* scripts/ml: save_models(models, scaler, feature_names, metrics, sport) is called.
save_models ==
    /\ ~sv.active
    /\ Len(saves) < MaxSaves
    /\ \E sport \in Sports :
         sv' = SaveModelsCall(EnsembleModels, EnsembleMetrics, sport, Len(saves) + 1)
    /\ UNCHANGED <<files, now, saves, trainVars, featureVars, extractVars, blendVars, connVars, serveVars>>

\* The variants ComprehensiveMLPipeline.train_ensemble_models can train.
PipelineModels == <<"random_forest", "gradient_boosting", "xgboost">>

\* ml-service: save_production_model(model_name, feature_names) is called.
save_production_model ==
    /\ ~sv.active
    /\ Len(saves) < MaxSaves
    /\ \E sport \in Sports, model_name \in Range(PipelineModels) :
         sv' = SaveProductionCall(model_name, sport, Len(saves) + 1)
    /\ UNCHANGED <<files, now, saves, trainVars, featureVars, extractVars, blendVars, connVars, serveVars>>

RegistryInit ==
    /\ files = <<>>
    /\ now = 0
    /\ sv = NoSave
    /\ saves = <<>>

-----------------------------------------------------------------------------
(* One training run: ComprehensiveMLPipeline.run (ml-service) and main
   (scripts/ml) *)

\* Rows below which ComprehensiveMLPipeline.run refuses to train.
MinPredictions == 50
\* Default of --min-games in scripts/ml.
DefaultMinGames == 100
\* Metric values are ranks 0..MaxScore: 0 is the value 0.0, a higher rank a
\* higher value.
MaxScore == 1
\* The test partition is rows k+1..k+n_test for some k in 0..MaxSplitOffset.
MaxSplitOffset == 1

Scores == 0..MaxScore

\* Sizes of the loaded batch: empty, just below, at and just above the minimum.
RowCounts == {0, MinPredictions - 1, MinPredictions, MinPredictions + 1}

\* Values of --min-games.
MinGamesArgs == {MinPredictions, DefaultMinGames}

\* The minimum the run compares len(df) with.
MinRows == IF pipeline = "ml-service" THEN MinPredictions ELSE args.min_games

\* The mutant of InsufficientData that only rejects an empty batch.
InsufficientDataEmptyOnly(n, minimum) == n = 0

\* `df.empty or len(df) < 50` (run), `len(df) < args.min_games` (main)
InsufficientData(n, minimum) == n = 0 \/ n < minimum

\* train_test_split(test_size=0.2): n_test = ceil(0.2 * n)
TestSize(n) == (n + 4) \div 5

\* Numbers of records with label 1 in a batch of n: none, one, two, half.
PositiveCounts(n) == {p \in {0, 1, 2, n \div 2} : p <= n}

\* train_test_split(stratify=y) raises ValueError when the least populated
\* class of y has a single member.
CannotStratify(rows, pos) ==
    \/ Cardinality(rows \cap pos) = 1
    \/ Cardinality(rows \ pos) = 1

\* The numbers of rows of label 1 the stratified test partition may get: the
\* share of the class in n_test, rounded down, and the one row the roundings
\* leave over to the class with the larger remainder (to either on a tie).
TestPositives(n, p) ==
    LET nt == TestSize(n)
        low1 == (p * nt) \div n
        low0 == ((n - p) * nt) \div n
        rem1 == (p * nt) % n
        rem0 == ((n - p) * nt) % n
    IN IF low0 + low1 = nt THEN {low1}
       ELSE IF rem1 > rem0 THEN {low1 + 1}
       ELSE IF rem1 < rem0 THEN {low1}
       ELSE {low1, low1 + 1}

\* The test partitions train_test_split may return for rows of which 1..p
\* have label 1: a window of each class, k rows into the class.
TestPartitions(rows, pos) ==
    LET n == Cardinality(rows)
        p == Cardinality(rows \cap pos)
    IN {t \in {{r \in rows : \/ r <= p /\ k < r /\ r <= k + tp
                             \/ r > p /\ p + k < r /\ r <= p + k + (TestSize(n) - tp)} :
                 k \in 0..MaxSplitOffset, tp \in TestPositives(n, p)} :
          Cardinality(t) = TestSize(n)}

\* y has one class only: predict_proba has one column and [:, 1] raises
\* IndexError; roc_auc_score raises ValueError.
OneClass(rows, pos) == rows \cap pos = {} \/ rows \subseteq pos

\* The variants train_ensemble_models trains, in the order it inserts them.
TrainedVariants ==
    IF HAS_XGBOOST THEN PipelineModels ELSE <<"random_forest", "gradient_boosting">>

\* The results dicts train_ensemble_models may return: one report per variant.
\* Of a report, f1 and roc_auc are kept; nothing reads the rest.
PipelineResults(names) ==
    {[i \in DOMAIN names |-> [name |-> names[i], f1 |-> m[i].f1, roc_auc |-> m[i].roc_auc]] :
        m \in [DOMAIN names -> [f1 : Scores, roc_auc : Scores]]}

\* The keys of the metrics dict of train_ensemble, in insertion order.
EnsembleReports == <<"random_forest", "xgboost", "logistic_regression", "ensemble">>

\* The metrics dicts train_ensemble may return; f1 and accuracy are kept.
EnsembleResults ==
    {[i \in DOMAIN EnsembleReports |->
        [name |-> EnsembleReports[i], f1 |-> m[i].f1, accuracy |-> m[i].accuracy]] :
        m \in [DOMAIN EnsembleReports -> [f1 : Scores, accuracy : Scores]]}

\* The loop of evaluate_and_select_best from entry i on.
RECURSIVE SelectFrom(_, _, _, _)
SelectFrom(rs, i, best_model_name, best_f1) ==
    IF i > Len(rs) THEN best_model_name
    ELSE IF rs[i].f1 > best_f1
         THEN SelectFrom(rs, i + 1, rs[i].name, rs[i].f1)
         ELSE SelectFrom(rs, i + 1, best_model_name, best_f1)

\* evaluate_and_select_best: best_model_name = None, best_f1 = 0, then the loop.
evaluate_and_select_best(rs) == SelectFrom(rs, 1, "None", 0)

\* max(metrics.items(), key=lambda x: x[1]['accuracy'])[0]: the first entry of
\* maximal accuracy.
BestByAccuracy(rs) ==
    LET i == CHOOSE i \in DOMAIN rs :
                 \A j \in DOMAIN rs :
                     /\ rs[j].accuracy <= rs[i].accuracy
                     /\ j < i => rs[j].accuracy < rs[i].accuracy
    IN rs[i].name

Names(rs) == {rs[i].name : i \in DOMAIN rs}

\* The module is imported: scripts/ml imports xgboost unconditionally,
\* ml-service guards the import.
import_modules ==
    /\ pc = "init"
    /\ IF pipeline = "scripts" /\ ~HAS_XGBOOST
       THEN pc' = "import_error" /\ exitCode' = 1
       ELSE pc' = "start" /\ exitCode' = exitCode
    /\ UNCHANGED <<pipeline, args, HAS_XGBOOST, positives, fitted, df, X, test, scalerFit, fitCount, results, best>>
    /\ UNCHANGED <<registryVars, featureVars, extractVars, blendVars, connVars, serveVars>>

\* load_prediction_data / load_training_data: the batch is read.
load_data ==
    /\ pc = "start"
    /\ \E n \in RowCounts :
         \E p \in PositiveCounts(n) :
            /\ df' = 1..n
            /\ positives' = 1..p
    /\ pc' = "loaded"
    /\ UNCHANGED <<pipeline, args, HAS_XGBOOST, fitted, X, test, scalerFit, fitCount, results, best, exitCode>>
    /\ UNCHANGED <<registryVars, featureVars, extractVars, blendVars, connVars, serveVars>>

\* The minimum-size check: run returns, main calls sys.exit(1).
check_data ==
    /\ pc = "loaded"
    /\ IF InsufficientData(Cardinality(df), MinRows)
       THEN IF pipeline = "ml-service"
            THEN pc' = "returned" /\ exitCode' = 0
            ELSE pc' = "exited" /\ exitCode' = 1
       ELSE pc' = "checked" /\ exitCode' = exitCode
    /\ UNCHANGED <<pipeline, args, HAS_XGBOOST, positives, fitted, df, X, test, scalerFit, fitCount, results, best>>
    /\ UNCHANGED <<registryVars, featureVars, extractVars, blendVars, connVars, serveVars>>

\* ComprehensiveMLPipeline.engineer_features: every row is kept, or (a feature
\* column with no value at all) dropna() leaves none and run returns, or (a
\* record of the local files without label) the cast of the label raises.
pipeline_engineer_features ==
    /\ pc = "checked"
    /\ pipeline = "ml-service"
    /\ \E outcome \in {"ok", "empty", "raised"} :
         /\ X' = IF outcome = "ok" THEN df ELSE {}
         /\ CASE outcome = "ok" -> pc' = "engineered" /\ exitCode' = exitCode
              [] outcome = "empty" -> pc' = "returned" /\ exitCode' = 0
              [] outcome = "raised" -> pc' = "raised" /\ exitCode' = 1
    /\ UNCHANGED <<pipeline, args, HAS_XGBOOST, positives, fitted, df, test, scalerFit, fitCount, results, best>>
    /\ UNCHANGED <<registryVars, featureVars, extractVars, blendVars, connVars, serveVars>>

\* prepare_features: fewer than 10 known feature columns raise ValueError;
\* otherwise the scaler is fit on every row of X and X is returned scaled.
prepare_features ==
    /\ pc = "checked"
    /\ pipeline = "scripts"
    /\ \E enough_features \in BOOLEAN :
         IF enough_features
         THEN /\ X' = df
              /\ scalerFit' = df
              /\ fitCount' = fitCount + 1
              /\ pc' = "engineered"
              /\ exitCode' = exitCode
         ELSE /\ pc' = "raised"
              /\ exitCode' = 1
              /\ UNCHANGED <<X, scalerFit, fitCount>>
    /\ UNCHANGED <<pipeline, args, HAS_XGBOOST, positives, fitted, df, test, results, best>>
    /\ UNCHANGED <<registryVars, featureVars, extractVars, blendVars, connVars, serveVars>>

\* train_test_split(X, y, test_size=0.2, random_state=42, stratify=y)
train_test_split ==
    /\ pc = "engineered"
    /\ IF CannotStratify(X, positives)
       THEN pc' = "raised" /\ exitCode' = 1 /\ test' = test
       ELSE /\ \E t \in TestPartitions(X, positives) : test' = t
            /\ pc' = "split"
            /\ exitCode' = exitCode
    /\ UNCHANGED <<pipeline, args, HAS_XGBOOST, positives, fitted, df, X, scalerFit, fitCount, results, best>>
    /\ UNCHANGED <<registryVars, featureVars, extractVars, blendVars, connVars, serveVars>>

\* ComprehensiveMLPipeline.train_ensemble_models: scaler.fit_transform(X_train),
\* scaler.transform(X_test), then one fit and one report per variant. With a
\* partition of one class the report of the first variant raises, after its
\* fit.
train_ensemble_models ==
    /\ pc = "split"
    /\ pipeline = "ml-service"
    /\ scalerFit' = X \ test
    /\ fitCount' = fitCount + 1
    /\ IF OneClass(X \ test, positives) \/ OneClass(test, positives)
       THEN /\ fitted' = {"random_forest"}
            /\ pc' = "raised"
            /\ exitCode' = 1
            /\ results' = results
       ELSE /\ fitted' = Range(TrainedVariants)
            /\ \E rs \in PipelineResults(TrainedVariants) : results' = rs
            /\ pc' = "trained"
            /\ exitCode' = exitCode
    /\ UNCHANGED <<pipeline, args, HAS_XGBOOST, positives, df, X, test, best>>
    /\ UNCHANGED <<registryVars, featureVars, extractVars, blendVars, connVars, serveVars>>

\* train_ensemble: the three variants and the blend are fit and scored on the
\* matrix prepare_features scaled.
train_ensemble ==
    /\ pc = "split"
    /\ pipeline = "scripts"
    /\ IF OneClass(X \ test, positives) \/ OneClass(test, positives)
       THEN /\ fitted' = {"random_forest"}
            /\ pc' = "raised"
            /\ exitCode' = 1
            /\ results' = results
       ELSE /\ fitted' = Range(EnsembleModels)
            /\ \E rs \in EnsembleResults : results' = rs
            /\ pc' = "trained"
            /\ exitCode' = exitCode
    /\ UNCHANGED <<pipeline, args, HAS_XGBOOST, positives, df, X, test, scalerFit, fitCount, best>>
    /\ UNCHANGED <<registryVars, featureVars, extractVars, blendVars, connVars, serveVars>>

\* run, step 5: evaluate_and_select_best; scaler.transform(X_test) does not
\* refit. With no variant selected, best_model_name.upper() raises.
select_best ==
    /\ pc = "trained"
    /\ pipeline = "ml-service"
    /\ best' = evaluate_and_select_best(results)
    /\ IF best' = "None"
       THEN pc' = "raised" /\ exitCode' = 1
       ELSE pc' = "selected" /\ exitCode' = exitCode
    /\ UNCHANGED <<pipeline, args, HAS_XGBOOST, positives, fitted, df, X, test, scalerFit, fitCount, results>>
    /\ UNCHANGED <<registryVars, featureVars, extractVars, blendVars, connVars, serveVars>>

\* run, step 6: save_production_model(best_model, X.columns) is called.
run_save_production_model ==
    /\ pc = "selected"
    /\ pipeline = "ml-service"
    /\ sv' = SaveProductionCall(best, args.sport, Len(saves) + 1)
    /\ pc' = "saving"
    /\ UNCHANGED <<pipeline, args, HAS_XGBOOST, positives, fitted, df, X, test, scalerFit, fitCount, results, best, exitCode>>
    /\ UNCHANGED <<files, now, saves, featureVars, extractVars, blendVars, connVars, serveVars>>

\* main: save_models(models, scaler, feature_names, metrics, args.sport) is called.
main_save_models ==
    /\ pc = "trained"
    /\ pipeline = "scripts"
    /\ sv' = SaveModelsCall(EnsembleModels, Names(results), args.sport, Len(saves) + 1)
    /\ pc' = "saving"
    /\ UNCHANGED <<pipeline, args, HAS_XGBOOST, positives, fitted, df, X, test, scalerFit, fitCount, results, best, exitCode>>
    /\ UNCHANGED <<files, now, saves, featureVars, extractVars, blendVars, connVars, serveVars>>

\* The run ends: run prints and returns; main reports the best model, picked
\* by accuracy, and returns.
finish ==
    /\ pc = "saved"
    /\ best' = IF pipeline = "scripts" THEN BestByAccuracy(results) ELSE best
    /\ pc' = "done"
    /\ exitCode' = 0
    /\ UNCHANGED <<pipeline, args, HAS_XGBOOST, positives, fitted, df, X, test, scalerFit, fitCount, results>>
    /\ UNCHANGED <<registryVars, featureVars, extractVars, blendVars, connVars, serveVars>>

TrainInit ==
    /\ pipeline \in {"ml-service", "scripts"}
    /\ pc = "init"
    /\ args \in [sport : Sports, min_games : MinGamesArgs]
    /\ pipeline = "ml-service" => args.min_games = MinPredictions
    /\ HAS_XGBOOST \in BOOLEAN
    /\ df = {}
    /\ positives = {}
    /\ X = {}
    /\ test = {}
    /\ scalerFit = {}
    /\ fitCount = 0
    /\ fitted = {}
    /\ results = <<>>
    /\ best = "None"
    /\ exitCode = -1

-----------------------------------------------------------------------------
(* The derived features of one game: engineer_features (ml-service/train_model.py,
   module level) against predict (ml-service/serve.py) *)

\* Spreads and totals are whole numbers of absolute value at most MaxLine.
MaxLine == 1

SpreadValues == (0 - MaxLine)..MaxLine
TotalValues == 0..MaxLine
MoneylineValues == {0 - 110, 100}
ConfidenceValues == {49, 50, 70, 71}

Abs(n) == IF n < 0 THEN 0 - n ELSE n

RECURSIVE Gcd(_, _)
Gcd(a, b) == IF b = 0 THEN a ELSE Gcd(b, a % b)

\* The quotient n / d of two numbers (d # 0), as a fraction in lowest terms
\* with a positive denominator.
Quotient(n, d) ==
    LET g == Gcd(Abs(n), Abs(d))
        sign == IF d < 0 THEN 0 - 1 ELSE 1
    IN [num |-> sign * (n \div g), den |-> Abs(d) \div g]

Zero == [num |-> 0, den |-> 1]

\* Series.replace(0, 1)
Replace0By1(n) == IF n = 0 THEN 1 ELSE n

GameInputs ==
    [openingSpread : SpreadValues, closingSpread : SpreadValues,
     openingTotal : TotalValues, closingTotal : TotalValues,
     openingML : MoneylineValues, closingML : MoneylineValues,
     confidence : ConfidenceValues]

\* engineer_features, the derived columns of one row.
engineer_features(g) ==
    LET spread_movement == g.closingSpread - g.openingSpread
        total_movement == g.closingTotal - g.openingTotal
    IN [spread_movement |-> spread_movement,
        spread_movement_pct |->
            Quotient(spread_movement, Replace0By1(Abs(g.openingSpread))),
        total_movement |-> total_movement,
        total_movement_pct |-> Quotient(total_movement, Replace0By1(g.openingTotal)),
        ml_movement |-> g.closingML - g.openingML,
        high_confidence |-> IF g.confidence > 70 THEN 1 ELSE 0,
        medium_confidence |->
            IF g.confidence >= 50 /\ g.confidence <= 70 THEN 1 ELSE 0]

\* predict with a medium bucket that ends below 70.
PredictDerivedOpenBucket(g) ==
    [spread_movement |-> g.closingSpread - g.openingSpread,
     spread_movement_pct |->
         IF g.openingSpread # 0
         THEN Quotient(g.closingSpread - g.openingSpread, Abs(g.openingSpread)) ELSE Zero,
     total_movement |-> g.closingTotal - g.openingTotal,
     total_movement_pct |->
         IF g.openingTotal # 0
         THEN Quotient(g.closingTotal - g.openingTotal, g.openingTotal) ELSE Zero,
     ml_movement |-> g.closingML - g.openingML,
     high_confidence |-> IF g.confidence > 70 THEN 1 ELSE 0,
     medium_confidence |-> IF 50 <= g.confidence /\ g.confidence < 70 THEN 1 ELSE 0]

\* predict, the derived features of the request.
PredictDerived(g) ==
    LET spread_movement == g.closingSpread - g.openingSpread
        total_movement == g.closingTotal - g.openingTotal
    IN [spread_movement |-> spread_movement,
        spread_movement_pct |->
            IF g.openingSpread # 0
            THEN Quotient(spread_movement, Abs(g.openingSpread)) ELSE Zero,
        total_movement |-> total_movement,
        total_movement_pct |->
            IF g.openingTotal # 0
            THEN Quotient(total_movement, g.openingTotal) ELSE Zero,
        ml_movement |-> g.closingML - g.openingML,
        high_confidence |-> IF g.confidence > 70 THEN 1 ELSE 0,
        medium_confidence |->
            IF 50 <= g.confidence /\ g.confidence <= 70 THEN 1 ELSE 0]

NoFeatures == [type |-> "none"]

\* Training derives the features of the record.
train_derive ==
    /\ trainFeat = NoFeatures
    /\ trainFeat' = engineer_features(game)
    /\ UNCHANGED <<game, serveFeat, registryVars, trainVars, serveVars, extractVars, blendVars, connVars>>

\* The service derives the features of a request with the same raw fields.
serve_derive ==
    /\ serveFeat = NoFeatures
    /\ serveFeat' = PredictDerived(game)
    /\ UNCHANGED <<game, trainFeat, registryVars, trainVars, serveVars, extractVars, blendVars, connVars>>

FeaturesInit ==
    /\ game \in GameInputs
    /\ trainFeat = NoFeatures
    /\ serveFeat = NoFeatures

-----------------------------------------------------------------------------
(* The prediction service: load_models at startup, then predict *)

WinnerModelFile == "winner_model.pkl"
SpreadModelFile == "spread_model.pkl"
EncodersFile == "encoders.pkl"
SummaryFile == "training_summary.json"

\* The files load_models reads, in the order it reads them.
ServiceFiles == <<WinnerModelFile, SpreadModelFile, EncodersFile, SummaryFile>>

\* classes_ of the sport encoder: the sorted distinct sports of a training batch.
SportClasses == {<<"NFL">>, <<"NCAAF", "NFL">>}
\* classes_ of both team encoders: the sorted distinct teams of a training batch.
TeamClasses == {<<"BUF", "KC">>, <<"BUF", "KC", "NE">>}

RequestSports == {"NFL", "NBA"}
RequestHomeTeams == {"BUF", "NE", "SEA"}
RequestAwayTeams == {"KC", "SEA"}

\* The encoders dict engineer_features dumps: both team encoders are fit on
\* the same teams.
EncodersPickle(sports, teams) ==
    [type |-> "encoders", sport |-> sports, home_team |-> teams, away_team |-> teams]

\* What the training script leaves in a service file.
ServiceFileContent(path, sports, teams) ==
    CASE path = WinnerModelFile -> [type |-> "model", name |-> "winner"]
      [] path = SpreadModelFile -> [type |-> "model", name |-> "spread"]
      [] path = EncodersFile -> EncodersPickle(sports, teams)
      [] path = SummaryFile ->
            [type |-> "summary", trained_at |-> IsoFormat(0),
             training_size |-> 100,
             models |-> [winner |-> "metrics", spread |-> "metrics"]]

\* A file that joblib.load / json.load cannot decode.
Corrupt == [type |-> "corrupt"]

\* The models directories the service may start on: each of the four files
\* is there as training left it, is missing, or is corrupt.
ServiceDirectories ==
    {[p \in present |->
         IF p \in corrupt THEN Corrupt ELSE ServiceFileContent(p, sports, teams)] :
        present \in SUBSET Range(ServiceFiles),
        corrupt \in SUBSET Range(ServiceFiles),
        sports \in SportClasses, teams \in TeamClasses}

\* The number of leading files of ServiceFiles that load: load_models stops
\* at the first one that is missing (FileNotFoundError) or cannot be decoded.
RECURSIVE LoadedPrefix(_, _)
LoadedPrefix(fs, i) ==
    IF i > Len(ServiceFiles) THEN i - 1
    ELSE IF ServiceFiles[i] \notin DOMAIN fs THEN i - 1
    ELSE IF fs[ServiceFiles[i]] = Corrupt THEN i - 1
    ELSE LoadedPrefix(fs, i + 1)

\* How load_models ends after reading n files: it returns True, it returns
\* False (the except FileNotFoundError clause), or the decoding error of a
\* corrupt file leaves it, no clause catching it.
LoadOutcome(fs, n) ==
    IF n = Len(ServiceFiles) THEN "True"
    ELSE IF ServiceFiles[n + 1] \notin DOMAIN fs THEN "False"
    ELSE "raised"

\* dict update: d[key] = value
Put(d, key, value) ==
    [k \in DOMAIN d \cup {key} |-> IF k = key THEN value ELSE d[k]]

\* `models` after load_models read the first n files.
ModelsAfterLoad(fs, n) ==
    LET m1 == IF n >= 1 THEN Put(models, "winner", fs[WinnerModelFile]) ELSE models
        m2 == IF n >= 2 THEN Put(m1, "spread", fs[SpreadModelFile]) ELSE m1
    IN IF n >= 4 THEN Put(m2, "summary", fs[SummaryFile]) ELSE m2

\* `encoders` after load_models read the first n files.
EncodersAfterLoad(fs, n) ==
    IF n >= 3
    THEN Put(Put(Put(encoders, "sport", fs[EncodersFile].sport),
                 "home_team", fs[EncodersFile].home_team),
             "away_team", fs[EncodersFile].away_team)
    ELSE encoders

\* startup_event: load_models() runs once; a missing file ends it with False
\* and the entries loaded so far stay in the caches. The application then
\* serves requests, unless an exception left load_models: an exception in the
\* startup handler fails the startup of the application.
load_models ==
    /\ ~started
    /\ LET n == LoadedPrefix(files, 1) IN
         /\ models' = ModelsAfterLoad(files, n)
         /\ encoders' = EncodersAfterLoad(files, n)
         /\ response' = [kind |-> "load_models", status |-> 0,
                         outcome |-> LoadOutcome(files, n)]
         /\ serving' = (LoadOutcome(files, n) # "raised")
    /\ started' = TRUE
    /\ UNCHANGED <<registryVars, trainVars, featureVars, extractVars, blendVars, connVars>>

\* LabelEncoder.transform([x])[0]: the index of x in classes_; an x that is
\* not in classes_ raises ValueError.
Unseen(classes, x) == x \notin Range(classes)
Transform(classes, x) == (CHOOSE i \in DOMAIN classes : classes[i] = x) - 1

\* len(classes_) // 2
Midpoint(classes) == Len(classes) \div 2

\* The response of predict to a request for (sport, homeTeam, awayTeam).
Predict(sport, homeTeam, awayTeam) ==
    LET request == [sport |-> sport, homeTeam |-> homeTeam, awayTeam |-> awayTeam]
        Error(status, detail) ==
            [kind |-> "predict", request |-> request, status |-> status, detail |-> detail]
    IN
    IF "winner" \notin DOMAIN models \/ "spread" \notin DOMAIN models
    THEN Error(503, "Models not loaded. Train models first.")
    ELSE IF "sport" \notin DOMAIN encoders THEN Error(500, "KeyError")
    ELSE IF Unseen(encoders["sport"], sport) THEN Error(500, "ValueError")
    ELSE IF "home_team" \notin DOMAIN encoders THEN Error(500, "KeyError")
    ELSE IF "away_team" \notin DOMAIN encoders THEN Error(500, "KeyError")
    ELSE IF "summary" \notin DOMAIN models THEN Error(500, "KeyError")
    ELSE [kind |-> "predict", request |-> request, status |-> 200,
          sport_encoded |-> Transform(encoders["sport"], sport),
          home_encoded |->
              IF Unseen(encoders["home_team"], homeTeam)
              THEN Midpoint(encoders["home_team"])
              ELSE Transform(encoders["home_team"], homeTeam),
          away_encoded |->
              IF Unseen(encoders["away_team"], awayTeam)
              THEN Midpoint(encoders["away_team"])
              ELSE Transform(encoders["away_team"], awayTeam),
          model_version |-> models["summary"].trained_at]

\* POST /predict
predict ==
    /\ serving
    /\ \E sport \in RequestSports, homeTeam \in RequestHomeTeams,
          awayTeam \in RequestAwayTeams :
         response' = Predict(sport, homeTeam, awayTeam)
    /\ UNCHANGED <<models, encoders, started, serving, registryVars, trainVars, featureVars, extractVars, blendVars, connVars>>

\* Bound: the number of games of a batch request.
MaxBatch == 2

\* The games of the batch requests: of a seen and of an unseen sport, with a
\* seen and with an unseen home team.
Games ==
    [sport : RequestSports, homeTeam : {"BUF", "SEA"}, awayTeam : {"KC"}]

\* The request bodies of /predict/batch.
Batches == UNION {[1..n -> Games] : n \in 0..MaxBatch}

\* What predict_batch appends for a game: the prediction, or, predict having
\* raised its HTTPException, an error entry naming the game.
BatchEntry(g) ==
    LET r == Predict(g.sport, g.homeTeam, g.awayTeam) IN
    IF r.status = 200 THEN r
    ELSE [error |-> ToString(r.status) \o ": " \o r.detail,
          game |-> g.awayTeam \o " @ " \o g.homeTeam]

\* predict_batch with `successful` counting every entry.
PredictBatchCountsAll(games) ==
    IF "winner" \notin DOMAIN models \/ "spread" \notin DOMAIN models
    THEN [kind |-> "predict_batch", status |-> 503, detail |-> "Models not loaded"]
    ELSE [kind |-> "predict_batch", status |-> 200, games |-> games,
          predictions |-> [i \in DOMAIN games |-> BatchEntry(games[i])],
          total |-> Len(games),
          successful |-> Len(games)]

\* The response of predict_batch to the request `games`.
PredictBatch(games) ==
    IF "winner" \notin DOMAIN models \/ "spread" \notin DOMAIN models
    THEN [kind |-> "predict_batch", status |-> 503, detail |-> "Models not loaded"]
    ELSE LET predictions == [i \in DOMAIN games |-> BatchEntry(games[i])] IN
         [kind |-> "predict_batch", status |-> 200, games |-> games,
          predictions |-> predictions,
          total |-> Len(games),
          successful |->
              Cardinality({i \in DOMAIN predictions :
                              "error" \notin DOMAIN predictions[i]})]

\* POST /predict/batch
predict_batch ==
    /\ serving
    /\ \E games \in Batches : response' = PredictBatch(games)
    /\ UNCHANGED <<models, encoders, started, serving, registryVars, trainVars, featureVars, extractVars, blendVars, connVars>>

\* GET /
root ==
    /\ serving
    /\ response' = [kind |-> "root", status |-> 200, models_loaded |-> DOMAIN models # {}]
    /\ UNCHANGED <<models, encoders, started, serving>>
    /\ UNCHANGED <<registryVars, trainVars, featureVars, extractVars, blendVars, connVars>>

\* GET /models/info
models_info ==
    /\ serving
    /\ response' =
         IF "summary" \notin DOMAIN models
         THEN [kind |-> "models_info", status |-> 503, detail |-> "Models not loaded"]
         ELSE [kind |-> "models_info", status |-> 200, body |-> models["summary"]]
    /\ UNCHANGED <<models, encoders, started, serving, registryVars, trainVars, featureVars, extractVars, blendVars, connVars>>

\* GET /metrics
get_metrics ==
    /\ serving
    /\ response' =
         IF "summary" \notin DOMAIN models
         THEN [kind |-> "get_metrics", status |-> 503, detail |-> "Models not loaded"]
         ELSE [kind |-> "get_metrics", status |-> 200,
               training_metrics |-> models["summary"].models,
               training_size |-> models["summary"].training_size,
               trained_at |-> models["summary"].trained_at]
    /\ UNCHANGED <<models, encoders, started, serving, registryVars, trainVars, featureVars, extractVars, blendVars, connVars>>

ServeInit ==
    /\ models = <<>>
    /\ encoders = <<>>
    /\ started = FALSE
    /\ serving = FALSE
    /\ response = [status |-> 0]

-----------------------------------------------------------------------------
(* Feature extraction on a batch of records:
   ComprehensiveMLPipeline.engineer_features (ml-service) and
   prepare_features (scripts/ml) *)

\* Bound: the number of records of a batch.
MaxRecords == 4
\* Bound: the number of records of each batch of two successive runs.
MaxManifestRecords == 1
\* Fewer available features than this make prepare_features raise.
MinFeatures == 10

\* scripts/ml: the feature categories.
OFFENSIVE_FEATURES ==
    <<"homeOffensiveEff", "awayOffensiveEff", "homePassingYards", "awayPassingYards",
      "homeRushingYards", "awayRushingYards", "homeRedZonePct", "awayRedZonePct",
      "homeThirdDownPct", "awayThirdDownPct">>
DEFENSIVE_FEATURES ==
    <<"homeDefensiveEff", "awayDefensiveEff", "homeSacksPerGame", "awaySacksPerGame",
      "homeTurnoversForced", "awayTurnoversForced">>
SITUATIONAL_FEATURES ==
    <<"homeWinPct", "awayWinPct", "homeATSRecord", "awayATSRecord", "homeRestDays",
      "awayRestDays", "isHomeTeam", "isDivisionGame", "isConferenceGame", "isPrimeTime">>
ADVANCED_FEATURES ==
    <<"homeRecentForm", "awayRecentForm", "h2hWinPct", "homeHomeRecord", "awayAwayRecord",
      "pointDifferential", "totalPoints", "tempF", "windMPH", "precipitationProb">>
ALL_FEATURES ==
    OFFENSIVE_FEATURES \o DEFENSIVE_FEATURES \o SITUATIONAL_FEATURES \o ADVANCED_FEATURES

\* ml-service: the factor lists of engineer_features, in the order it goes
\* through them.
performance ==
    <<"homeOffensiveEff", "awayOffensiveEff", "homeDefensiveEff", "awayDefensiveEff",
      "homeYardsPerPlay", "awayYardsPerPlay", "homeSuccessRate", "awaySuccessRate",
      "homeExplosivePlayRate", "awayExplosivePlayRate", "homeRedZoneEff", "awayRedZoneEff",
      "homeThirdDownConv", "awayThirdDownConv">>
rest == <<"restDaysHome", "restDaysAway", "homeStrengthOfSchedule", "awayStrengthOfSchedule">>
weather == <<"temperature", "windSpeed", "precipitation", "weatherImpactScore">>
injuries == <<"homeKeyInjuries", "awayKeyInjuries", "homeInjuryImpact", "awayInjuryImpact">>
form ==
    <<"homePointsPerGameL5", "awayPointsPerGameL5", "homePointsAllowedL5", "awayPointsAllowedL5">>
situational == <<"homeATS", "awayATS", "homeVsTop10", "awayVsTop10">>
line == <<"lineMovement", "spreadCLV", "publicBettingPercent">>
epa ==
    <<"homeEPAPerPlay", "awayEPAPerPlay", "homePassEPA", "awayPassEPA", "homeRunEPA", "awayRunEPA">>
FactorLists ==
    performance \o rest \o weather \o injuries \o form \o situational \o line \o epa

\* ml-service: the derived features, each the difference of two columns.
DerivedFeatures ==
    <<[name |-> "homeOffensiveAdvantage", minuend |-> "homeOffensiveEff",
       subtrahend |-> "awayDefensiveEff"],
      [name |-> "awayOffensiveAdvantage", minuend |-> "awayOffensiveEff",
       subtrahend |-> "homeDefensiveEff"],
      [name |-> "restAdvantage", minuend |-> "restDaysHome", subtrahend |-> "restDaysAway"]>>

\* The columns every batch has, each with a value in every record: the
\* columns of the Prediction table the loaders select, and nine factor keys.
PredictionColumns ==
    {"sport", "confidence", "wasCorrect", "spreadCLV"}
        \cup (Range(OFFENSIVE_FEATURES) \ {"homeOffensiveEff"})

\* The factor keys a record may carry or lack, and their values.
OptionalFactors ==
    [K \in {"homeOffensiveEff", "awayDefensiveEff"} |->
        IF K = "homeOffensiveEff" THEN {0, 3} ELSE {1}]

\* The factors a record may carry besides the ones every record carries.
FactorDicts ==
    UNION {{f \in [K -> {0, 1, 3}] : \A c \in K : f[c] \in OptionalFactors[c]} :
              K \in SUBSET DOMAIN OptionalFactors}

\* A record: its correctness label ("None" while the game has no result) and
\* its factors.
Records == [wasCorrect : {"True", "False", "None"}, factors : FactorDicts]

\* The batches of at most n records.
BatchesUpTo(n) ==
    {[type |-> "batch", records |-> rs] : rs \in UNION {[1..k -> Records] : k \in 0..n}}

NoBatch == [type |-> "none"]

\* A missing value.
NaN == [nan |-> TRUE]

Labelled(r) == r.wasCorrect # "None"

\* df.columns once the factors are expanded: a key is a column when some
\* record of the batch carries it.
Columns(recs) ==
    PredictionColumns \cup UNION {DOMAIN recs[i].factors : i \in DOMAIN recs}

\* The rows that have a value in column c, with the value.
Present(recs, c) ==
    [i \in {j \in DOMAIN recs : c \in DOMAIN recs[j].factors} |-> recs[i].factors[c]]

\* The rows in which both columns of a derived feature have a value, with the
\* difference.
Difference(recs, d) ==
    [i \in DOMAIN Present(recs, d.minuend) \cap DOMAIN Present(recs, d.subtrahend) |->
        recs[i].factors[d.minuend] - recs[i].factors[d.subtrahend]]

RECURSIVE SumOf(_, _)
SumOf(vals, I) ==
    IF I = {} THEN 0
    ELSE LET i == CHOOSE j \in I : TRUE IN vals[i] + SumOf(vals, I \ {i})

\* Series.mean(), missing values skipped.
Mean(vals) ==
    IF DOMAIN vals = {} THEN NaN
    ELSE Quotient(SumOf(vals, DOMAIN vals), Cardinality(DOMAIN vals))

\* Series.median(), missing values skipped: the middle value, or the mean of
\* the two middle values.
Median(vals) ==
    LET I == DOMAIN vals
        n == Cardinality(I)
        Kth(k) == CHOOSE v \in {vals[i] : i \in I} :
                      /\ Cardinality({i \in I : vals[i] < v}) < k
                      /\ k <= Cardinality({i \in I : vals[i] <= v})
    IN IF n = 0 THEN NaN
       ELSE IF n % 2 = 1 THEN Quotient(Kth((n + 1) \div 2), 1)
       ELSE Quotient(Kth(n \div 2) + Kth(n \div 2 + 1), 2)

\* Series.fillna(fill): the column with `fill` where a row has no value.
Fillna(recs, vals, fill) ==
    [i \in DOMAIN recs |-> IF i \in DOMAIN vals THEN Quotient(vals[i], 1) ELSE fill]

\* ComprehensiveMLPipeline.engineer_features(df). The target is cast first:
\* astype(int) raises on a label that is missing. The manifest is the factor
\* lists filtered by `f in df.columns`, then confidence, then the derived
\* features whose two columns are there. Each column is filled with its
\* median (all columns of the batches are numeric), and dropna() drops the
\* rows that still miss a value. Of a row, the columns that can miss a value
\* are kept.
EngineerFeatures(recs) ==
    LET cols == Columns(recs)
        factors == SelectSeq(FactorLists, LAMBDA f : f \in cols)
        conf == IF "confidence" \in cols THEN <<"confidence">> ELSE <<>>
        derived == SelectSeq(DerivedFeatures,
                             LAMBDA d : d.minuend \in cols /\ d.subtrahend \in cols)
        feature_columns == factors \o conf \o [k \in DOMAIN derived |-> derived[k].name]
        optional == {c \in Range(factors) : c \in DOMAIN OptionalFactors}
        filled ==
            [c \in optional |-> Fillna(recs, Present(recs, c), Median(Present(recs, c)))]
            @@ [n \in {derived[k].name : k \in DOMAIN derived} |->
                  LET d == derived[CHOOSE k \in DOMAIN derived : derived[k].name = n]
                  IN Fillna(recs, Difference(recs, d), Median(Difference(recs, d)))]
        kept == {i \in DOMAIN recs : \A c \in DOMAIN filled : filled[c][i] # NaN}
    IN IF recs = <<>>
       THEN [outcome |-> "empty", feature_columns |-> <<>>, rows |-> {}]
       ELSE IF \E i \in DOMAIN recs : ~Labelled(recs[i])
       THEN [outcome |-> "raised", error |-> "ValueError: astype(int)"]
       ELSE [outcome |-> "ok", feature_columns |-> feature_columns,
             rows |-> {[record |-> i,
                        target |-> IF recs[i].wasCorrect = "True" THEN 1 ELSE 0,
                        features |-> [c \in DOMAIN filled |-> filled[c][i]]] : i \in kept}]

\* prepare_features(df): the manifest is ALL_FEATURES filtered by
\* `f in df.columns`; fewer than ten raise. X = X.fillna(X.mean()). Of a row,
\* the columns that can miss a value are kept, as imputed (before scaling).
PrepareFeatures(recs) ==
    LET cols == Columns(recs)
        available_features == SelectSeq(ALL_FEATURES, LAMBDA f : f \in cols)
        optional == {c \in Range(available_features) : c \in DOMAIN OptionalFactors}
        filled ==
            [c \in optional |-> Fillna(recs, Present(recs, c), Mean(Present(recs, c)))]
    IN IF Len(available_features) < MinFeatures
       THEN [outcome |-> "raised", error |-> "ValueError: Not enough features available"]
       ELSE [outcome |-> "ok", feature_columns |-> available_features,
             rows |-> {[record |-> i,
                        target |-> IF recs[i].wasCorrect = "True" THEN 1 ELSE 0,
                        features |-> [c \in DOMAIN filled |-> filled[c][i]]] :
                          i \in DOMAIN recs}]

\* ml-service: run calls engineer_features on the batch load_prediction_data
\* returned (the local-file fallback returns records with and without label).
extract_engineer_features ==
    /\ batch # NoBatch
    /\ runs' = Append(runs, [pipeline |-> "ml-service", records |-> batch.records]
                                @@ EngineerFeatures(batch.records))
    /\ batch' = pending
    /\ pending' = NoBatch
    /\ UNCHANGED <<registryVars, trainVars, featureVars, serveVars, blendVars, connVars>>

\* scripts/ml: main calls prepare_features on the batch load_training_data
\* returned; its query selects records with a label only.
extract_prepare_features ==
    /\ batch # NoBatch
    /\ \A i \in DOMAIN batch.records : Labelled(batch.records[i])
    /\ runs' = Append(runs, [pipeline |-> "scripts", records |-> batch.records]
                                @@ PrepareFeatures(batch.records))
    /\ batch' = pending
    /\ pending' = NoBatch
    /\ UNCHANGED <<registryVars, trainVars, featureVars, serveVars, blendVars, connVars>>

\* One extraction on one batch.
ExtractInit ==
    /\ batch \in BatchesUpTo(MaxRecords)
    /\ pending = NoBatch
    /\ runs = <<>>

\* Two successive runs, each on a batch of its own.
ManifestInit ==
    /\ batch \in BatchesUpTo(MaxManifestRecords)
    /\ pending \in BatchesUpTo(MaxManifestRecords)
    /\ runs = <<>>

-----------------------------------------------------------------------------
(* The weighted blend of train_ensemble (scripts/ml/train_model.py)        *)
(*                                                                         *)
(* Python floats and numpy float64 are IEEE-754 binary64 numbers: every    *)
(* literal, product and sum is the exact value rounded to 53 significant   *)
(* bits, ties to even. A float is the record [m, e] of value m * 2^e, m a  *)
(* natural number written in binary, lowest bit first, odd or empty (0).   *)

Precision == 53

RECURSIVE FromNat(_)
FromNat(n) == IF n = 0 THEN <<>> ELSE <<n % 2>> \o FromNat(n \div 2)

\* Numerals are added and multiplied limb by limb, LimbBits bits to a limb.
LimbBits == 14
Base == 2 ^ LimbBits

BitAt(a, i) == IF i \in 1..Len(a) THEN a[i] ELSE 0

RECURSIVE LimbValue(_, _, _)
LimbValue(a, j, i) ==
    IF i = LimbBits THEN 0
    ELSE BitAt(a, (j - 1) * LimbBits + i + 1) * 2 ^ i + LimbValue(a, j, i + 1)

ToLimbs(a) == [j \in 1..((Len(a) + LimbBits - 1) \div LimbBits) |-> LimbValue(a, j, 0)]

LimbAt(ls, j) == IF j \in 1..Len(ls) THEN ls[j] ELSE 0

ToBits(ls) ==
    LET bits == [i \in 1..(LimbBits * Len(ls)) |->
                    (ls[(i - 1) \div LimbBits + 1] \div 2 ^ ((i - 1) % LimbBits)) % 2]
        ones == {i \in 1..Len(bits) : bits[i] = 1}
    IN  IF ones = {} THEN <<>>
        ELSE SubSeq(bits, 1, CHOOSE i \in ones : \A j \in ones : j <= i)

\* The limbs of the number whose columns (of any size) are cols, plus carry c.
RECURSIVE Carry(_, _)
Carry(cols, c) ==
    IF cols = <<>> THEN (IF c = 0 THEN <<>> ELSE <<c % Base>> \o Carry(cols, c \div Base))
    ELSE <<(Head(cols) + c) % Base>> \o Carry(Tail(cols), (Head(cols) + c) \div Base)

\* a + b for binary numerals a and b
AddBits(a, b) ==
    LET x == ToLimbs(a)
        y == ToLimbs(b)
        n == IF Len(x) < Len(y) THEN Len(y) ELSE Len(x)
    IN  ToBits(Carry([j \in 1..n |-> LimbAt(x, j) + LimbAt(y, j)], 0))

\* a * 2^k
ShiftLeft(a, k) == IF a = <<>> THEN a ELSE [i \in 1..k |-> 0] \o a

RECURSIVE Column(_, _, _, _)
Column(x, y, k, i) ==
    IF i > Len(x) THEN 0 ELSE x[i] * LimbAt(y, k - i + 1) + Column(x, y, k, i + 1)

\* a * b for numerals of at most Precision bits
MulBits(a, b) ==
    LET x == ToLimbs(a)
        y == ToLimbs(b)
    IN  IF a = <<>> \/ b = <<>> THEN <<>>
        ELSE ToBits(Carry([k \in 1..(Len(x) + Len(y) - 1) |-> Column(x, y, k, 1)], 0))

\* Quotient and remainder of limbs ls by the small number d, highest limb first.
RECURSIVE DivLimbs(_, _)
DivLimbs(ls, d) ==
    IF ls = <<>> THEN [q |-> <<>>, r |-> 0]
    ELSE LET hi == DivLimbs(Tail(ls), d)
             x == hi.r * Base + Head(ls)
         IN  [q |-> <<x \div d>> \o hi.q, r |-> x % d]

DivRem(a, d) ==
    LET qr == DivLimbs(ToLimbs(a), d)
    IN  [q |-> ToBits(qr.q), r |-> qr.r]

LeqBits(a, b) ==
    IF Len(a) # Len(b) THEN Len(a) < Len(b)
    ELSE LET diff == {i \in 1..Len(a) : a[i] # b[i]}
         IN  diff = {} \/ LET top == CHOOSE i \in diff : \A j \in diff : j <= i
                          IN  a[top] < b[top]

\* The unique representation of m * 2^e: m odd, or 0 * 2^0.
Normal(m, e) ==
    LET ones == {i \in 1..Len(m) : m[i] = 1}
        low == CHOOSE i \in ones : \A j \in ones : i <= j
    IN  IF ones = {} THEN [m |-> <<>>, e |-> 0]
        ELSE [m |-> SubSeq(m, low, Len(m)), e |-> e + low - 1]

\* The binary64 number nearest to m * 2^e, ties to the even mantissa.
Round(m, e) ==
    IF Len(m) <= Precision THEN Normal(m, e)
    ELSE LET k == Len(m) - Precision
             q == SubSeq(m, k + 1, Len(m))
             up == m[k] = 1 /\ ((\E i \in 1..(k - 1) : m[i] = 1) \/ q[1] = 1)
         IN  Normal(IF up THEN AddBits(q, <<1>>) ELSE q, e + k)

\* The float a literal n/d in decimal notation denotes (0.35 is Float(35, 100)).
FloatScale == 64
Float(n, d) ==
    LET qr == DivRem(ShiftLeft(FromNat(n), FloatScale), d)
        sticky == IF qr.r = 0 THEN 0 ELSE 1
    IN  IF n = 0 THEN Normal(<<>>, 0)
        ELSE Round(<<sticky>> \o qr.q, 0 - FloatScale - 1)

\* x * y and x + y of floats
FMul(x, y) == Round(MulBits(x.m, y.m), x.e + y.e)

FAdd(x, y) ==
    LET e == IF x.e < y.e THEN x.e ELSE y.e
    IN  Round(AddBits(ShiftLeft(x.m, x.e - e), ShiftLeft(y.m, y.e - e)), e)

\* x <= y of floats
FLeq(x, y) ==
    LET e == IF x.e < y.e THEN x.e ELSE y.e
    IN  LeqBits(ShiftLeft(x.m, x.e - e), ShiftLeft(y.m, y.e - e))

FLess(x, y) == ~FLeq(y, x)

BlendVariants == <<"random_forest", "xgboost", "logistic_regression">>

\* Weights that do not add up to 1.
ensemble_weights_unnormalized ==
    [random_forest |-> Float(35, 100),
     xgboost |-> Float(45, 100),
     logistic_regression |-> Float(25, 100)]

ensemble_weights ==
    [random_forest |-> Float(35, 100),
     xgboost |-> Float(40, 100),
     logistic_regression |-> Float(25, 100)]

\* ensemble_proba of one test row whose three probabilities are p.
ensemble_proba(p) ==
    FAdd(FAdd(FMul(ensemble_weights.random_forest, p.random_forest),
              FMul(ensemble_weights.xgboost, p.xgboost)),
         FMul(ensemble_weights.logistic_regression, p.logistic_regression))

\* (ensemble_proba >= 0.5).astype(int)
ensemble_pred(p) == IF FLeq(Float(5, 10), ensemble_proba(p)) THEN 1 ELSE 0

\* The probabilities a variant may predict for a row, in hundredths.
Hundredths == {0, 20, 60, 67, 100}
Probabilities == {Float(k, 100) : k \in Hundredths}

NoProba == [type |-> "none"]
NoEnsemble == [type |-> "none"]

\* rf_proba, xgb_proba and lr_proba of one row of X_test.
predict_proba ==
    /\ proba = NoProba
    /\ \E rf \in Probabilities, xgb \in Probabilities, lr \in Probabilities :
           proba' = [random_forest |-> rf, xgboost |-> xgb, logistic_regression |-> lr]
    /\ UNCHANGED <<ensemble, connVars>>
    /\ UNCHANGED <<registryVars, trainVars, featureVars, serveVars, extractVars>>

\* "4. Ensemble (weighted average)"
create_ensemble ==
    /\ proba # NoProba
    /\ ensemble = NoEnsemble
    /\ ensemble' = [proba |-> ensemble_proba(proba), pred |-> ensemble_pred(proba)]
    /\ UNCHANGED <<proba, connVars>>
    /\ UNCHANGED <<registryVars, trainVars, featureVars, serveVars, extractVars>>

BlendInit ==
    /\ proba = NoProba
    /\ ensemble = NoEnsemble

-----------------------------------------------------------------------------
(* Database connections: NFLDataCollector.run (scripts/nflfastR/collect-pbp.py)
   and ComprehensiveMLPipeline.load_prediction_data (ml-service/train_model.py).
   `conns` holds the connections psycopg2.connect returned and close() was not
   called on. *)

\* Bound: the number of calls made one after the other.
MaxJobs == 2

NoJob == [proc |-> "none"]

\* self.conn = None
NoConn == 0

JobId == IF job = NoJob THEN 0 ELSE job.id

\* No call is in progress.
Returned == IF job = NoJob THEN TRUE ELSE job.pc = "returned"

At(proc, position) == job # NoJob /\ job.proc = proc /\ job.pc = position

\* main: collector.run(years, export_csv), with or without a database URL.
NFLDataCollector_run ==
    /\ Returned
    /\ JobId < MaxJobs
    /\ \E db_url \in BOOLEAN, export_csv \in BOOLEAN :
         job' = [proc |-> "run", pc |-> "connect_db", id |-> JobId + 1,
                 db_url |-> db_url, export_csv |-> export_csv, conn |-> NoConn]
    /\ conns' = conns
    /\ UNCHANGED <<registryVars, trainVars, featureVars, serveVars, extractVars, blendVars>>

\* connect_db: without a URL it returns; psycopg2.connect sets self.conn, or
\* raises and self.conn stays None.
connect_db ==
    /\ At("run", "connect_db")
    /\ \E connected \in BOOLEAN :
         LET opened == job.db_url /\ connected IN
         /\ conns' = IF opened THEN conns \cup {job.id} ELSE conns
         /\ job' = [job EXCEPT !.pc = "fetch",
                               !.conn = IF opened THEN job.id ELSE NoConn]
    /\ UNCHANGED <<registryVars, trainVars, featureVars, serveVars, extractVars, blendVars>>

\* fetch_play_by_play and fetch_team_stats (each returns an empty frame when
\* the download raises); with no plays run prints an error and returns.
fetch_play_by_play ==
    /\ At("run", "fetch")
    /\ \E empty \in BOOLEAN :
         job' = [job EXCEPT !.pc = IF empty THEN "returned" ELSE "features"]
    /\ conns' = conns
    /\ UNCHANGED <<registryVars, trainVars, featureVars, serveVars, extractVars, blendVars>>

\* calculate_team_features, store_training_data and, if asked for,
\* export_to_csv: each catches its own exceptions.
store_training_data ==
    /\ At("run", "features")
    /\ job' = [job EXCEPT !.pc = "close"]
    /\ conns' = conns
    /\ UNCHANGED <<registryVars, trainVars, featureVars, serveVars, extractVars, blendVars>>

\* if self.conn: self.conn.close()
close_conn ==
    /\ At("run", "close")
    /\ conns' = IF job.conn # NoConn THEN conns \ {job.conn} ELSE conns
    /\ job' = [job EXCEPT !.pc = "returned"]
    /\ UNCHANGED <<registryVars, trainVars, featureVars, serveVars, extractVars, blendVars>>

\* run, step 1: load_prediction_data(db_url); the database is tried when a URL
\* is given and psycopg2 was imported.
load_prediction_data ==
    /\ Returned
    /\ JobId < MaxJobs
    /\ \E db_url \in BOOLEAN, HAS_PSYCOPG2 \in BOOLEAN, local \in {"csv", "json", "none"} :
         job' = [proc |-> "load_prediction_data",
                 pc |-> IF db_url /\ HAS_PSYCOPG2 THEN "connect" ELSE "fallback",
                 id |-> JobId + 1, local |-> local, conn |-> NoConn, from |-> "none"]
    /\ conns' = conns
    /\ UNCHANGED <<registryVars, trainVars, featureVars, serveVars, extractVars, blendVars>>

\* conn = psycopg2.connect(db_url): a connection, or an exception the except
\* clause catches.
psycopg2_connect ==
    /\ At("load_prediction_data", "connect")
    /\ \E connected \in BOOLEAN :
         /\ conns' = IF connected THEN conns \cup {job.id} ELSE conns
         /\ job' = [job EXCEPT !.pc = IF connected THEN "query" ELSE "fallback",
                               !.conn = IF connected THEN job.id ELSE NoConn]
    /\ UNCHANGED <<registryVars, trainVars, featureVars, serveVars, extractVars, blendVars>>

\* pd.read_sql_query: it returns, conn.close() is called and the frame is
\* returned; or it raises and the except clause falls through to the files.
read_sql_query ==
    /\ At("load_prediction_data", "query")
    /\ \E answered \in BOOLEAN :
         /\ conns' = IF answered THEN conns \ {job.conn} ELSE conns
         /\ job' = IF answered
                   THEN [job EXCEPT !.pc = "returned", !.from = "database"]
                   ELSE [job EXCEPT !.pc = "fallback"]
    /\ UNCHANGED <<registryVars, trainVars, featureVars, serveVars, extractVars, blendVars>>

\* The CSV file, else the JSON file, else an empty frame is returned.
read_local_files ==
    /\ At("load_prediction_data", "fallback")
    /\ job' = [job EXCEPT !.pc = "returned", !.from = job.local]
    /\ conns' = conns
    /\ UNCHANGED <<registryVars, trainVars, featureVars, serveVars, extractVars, blendVars>>

ConnInit ==
    /\ conns = {}
    /\ job = NoJob

-----------------------------------------------------------------------------
(* Components at rest, for the specifications that do not move them *)

BlendIdle == BlendInit

ConnIdle == ConnInit

TrainIdle ==
    /\ pipeline = "none"
    /\ pc = "idle"
    /\ args = [sport |-> "NFL", min_games |-> 0]
    /\ HAS_XGBOOST = TRUE
    /\ df = {}
    /\ positives = {}
    /\ X = {}
    /\ test = {}
    /\ scalerFit = {}
    /\ fitCount = 0
    /\ fitted = {}
    /\ results = <<>>
    /\ best = "None"
    /\ exitCode = -1

FeaturesIdle ==
    /\ game = [type |-> "none"]
    /\ trainFeat = [type |-> "none"]
    /\ serveFeat = [type |-> "none"]

ServeIdle == ServeInit

ExtractIdle ==
    /\ batch = NoBatch
    /\ pending = NoBatch
    /\ runs = <<>>

InitRegistry == RegistryInit /\ TrainIdle /\ FeaturesIdle /\ ServeIdle /\ ExtractIdle
    /\ BlendIdle /\ ConnIdle

NextRegistry ==
    \/ Tick
    \/ save_models
    \/ SaveWrite
    \/ SaveWriteFails

\* save_models calls of scripts/ml, one after the other, any of which may fail.
SpecRegistry == InitRegistry /\ [][NextRegistry]_vars

NextSaves ==
    \/ Tick
    \/ save_models
    \/ SaveWrite

\* save_models calls of scripts/ml on a disk that takes every write.
SpecSaves == InitRegistry /\ [][NextSaves]_vars

NextProduction ==
    \/ Tick
    \/ save_production_model
    \/ SaveWrite
    \/ SaveWriteFails

\* save_production_model calls of ml-service, one after the other, any of
\* which may fail. (The two pipelines write to directories of their own.)
SpecProduction == InitRegistry /\ [][NextProduction]_vars

InitTrain == RegistryInit /\ TrainInit /\ FeaturesIdle /\ ServeIdle /\ ExtractIdle
    /\ BlendIdle /\ ConnIdle

NextTrain ==
    \/ import_modules
    \/ load_data
    \/ check_data
    \/ pipeline_engineer_features
    \/ prepare_features
    \/ train_test_split
    \/ train_ensemble_models
    \/ train_ensemble
    \/ select_best
    \/ run_save_production_model
    \/ main_save_models
    \/ SaveWrite
    \/ SaveWriteFails
    \/ finish

SpecTrain == InitTrain /\ [][NextTrain]_vars

InitFeatures == RegistryInit /\ TrainIdle /\ FeaturesInit /\ ServeIdle /\ ExtractIdle
    /\ BlendIdle /\ ConnIdle

NextFeatures ==
    \/ train_derive
    \/ serve_derive

SpecFeatures == InitFeatures /\ [][NextFeatures]_vars

InitServe ==
    /\ files \in ServiceDirectories
    /\ now = 0
    /\ sv = NoSave
    /\ saves = <<>>
    /\ TrainIdle
    /\ FeaturesIdle
    /\ ServeInit
    /\ ExtractIdle
    /\ BlendIdle
    /\ ConnIdle

NextServe ==
    \/ load_models
    \/ root
    \/ predict
    \/ predict_batch
    \/ models_info
    \/ get_metrics

SpecServe == InitServe /\ [][NextServe]_vars

InitExtract == RegistryInit /\ TrainIdle /\ FeaturesIdle /\ ServeIdle /\ ExtractInit
    /\ BlendIdle /\ ConnIdle

NextExtract ==
    \/ extract_engineer_features
    \/ extract_prepare_features

\* Feature extraction of either pipeline on one batch.
SpecExtract == InitExtract /\ [][NextExtract]_vars

InitManifest == RegistryInit /\ TrainIdle /\ FeaturesIdle /\ ServeIdle /\ ManifestInit
    /\ BlendIdle /\ ConnIdle

\* Two successive runs, each extracting the features of a batch of its own.
SpecManifest == InitManifest /\ [][NextExtract]_vars

\* The service starts on the models directory of a run that completed.
startup_event ==
    /\ pipeline = "ml-service"
    /\ pc = "done"
    /\ load_models

InitDeploy ==
    /\ RegistryInit /\ TrainInit /\ FeaturesIdle /\ ServeInit /\ ExtractIdle
    /\ BlendIdle /\ ConnIdle
    /\ pipeline = "ml-service"

NextDeploy ==
    \/ import_modules
    \/ load_data
    \/ check_data
    \/ pipeline_engineer_features
    \/ train_test_split
    \/ train_ensemble_models
    \/ select_best
    \/ run_save_production_model
    \/ SaveWrite
    \/ SaveWriteFails
    \/ finish
    \/ startup_event
    \/ predict

\* ComprehensiveMLPipeline.run on an empty models directory, then the service
\* is started on that directory and asked for predictions.
SpecDeploy == InitDeploy /\ [][NextDeploy]_vars

InitConnections ==
    /\ RegistryInit /\ TrainIdle /\ FeaturesIdle /\ ServeIdle /\ ExtractIdle
    /\ BlendIdle /\ ConnInit

NextConnections ==
    \/ NFLDataCollector_run
    \/ connect_db
    \/ fetch_play_by_play
    \/ store_training_data
    \/ close_conn
    \/ load_prediction_data
    \/ psycopg2_connect
    \/ read_sql_query
    \/ read_local_files

\* Calls of NFLDataCollector.run and of load_prediction_data, one after the other.
SpecConnections == InitConnections /\ [][NextConnections]_vars

InitBlend ==
    /\ RegistryInit /\ TrainIdle /\ FeaturesIdle /\ ServeIdle /\ ExtractIdle
    /\ BlendInit /\ ConnIdle

NextBlend ==
    \/ predict_proba
    \/ create_ensemble

\* The blend of the three variants' probabilities for one test row.
SpecBlend == InitBlend /\ [][NextBlend]_vars

-----------------------------------------------------------------------------
(* The claims *)

\* The report of variant `name` in the results of the run.
ReportOf(name) == results[CHOOSE i \in DOMAIN results : results[i].name = name]
IndexOf(name) == CHOOSE i \in DOMAIN results : results[i].name = name

\* C1 (as claimed; SpecTrain): the scaler's parameters are computed from
\* training-partition rows only -- no row of the test partition is among the
\* rows the scaler was fit on -- and the scaler is fit at most once.
C1_ScalerFitOnTrainOnly ==
    /\ scalerFit \cap test = {}
    /\ fitCount <= 1

\* C2 (SpecTrain): once a batch with fewer records than the minimum has been
\* loaded, the run goes nowhere but to its insufficient-data exit: no variant
\* is fit, no scaler is fit, no save is started and the models directory
\* holds what it held before the run (nothing).
C2_InsufficientDataAborts ==
    (pc \notin {"init", "import_error", "start"} /\ Cardinality(df) < MinRows)
        => /\ pc \in {"loaded", "returned", "exited"}
           /\ results = <<>>
           /\ fitCount = 0
           /\ ~sv.active
           /\ saves = <<>>
           /\ files = <<>>

\* C2: a run that loaded a non-empty batch below the minimum has ended.
C2_Witness ==
    /\ pc \in {"returned", "exited"}
    /\ df # {}
    /\ Cardinality(df) < MinRows

SavedOk(k) == k.kind = "save_models" /\ k.outcome = "ok"

\* The files of a returned save_models call still hold what that call wrote.
KeepsContent(k) ==
    /\ \A m \in Range(k.models) :
         LET f == ModelFileName(k.sport, m, k.version) IN
         f \in DOMAIN files /\ files[f] = [type |-> "model", name |-> m, id |-> k.id]
    /\ LET f == ScalerFileName(k.sport, k.version) IN
       f \in DOMAIN files /\ files[f] = [type |-> "scaler", id |-> k.id]
    /\ LET f == MetadataFileName(k.sport, k.version) IN
       f \in DOMAIN files /\ files[f] = k.meta

SameSecond(a, b) == a.second = b.second

\* C3 (as claimed; SpecSaves): of two save_models calls for one sport made
\* within the same second, the second gets a version id of its own or fails,
\* and the files of the first keep their content.
C3_NoSilentOverwrite ==
    \A i, j \in DOMAIN saves :
        (/\ i < j
         /\ SavedOk(saves[i])
         /\ saves[j].kind = "save_models"
         /\ saves[j].sport = saves[i].sport
         /\ SameSecond(saves[i], saves[j]))
            => /\ saves[j].version # saves[i].version \/ saves[j].outcome = "failed"
               /\ KeepsContent(saves[i])

\* The save_models calls made for a sport.
SavesOf(sport) ==
    {i \in DOMAIN saves : saves[i].kind = "save_models" /\ saves[i].sport = sport}

\* Version `version` of `sport` can be loaded: its metadata document is there,
\* and so are the scaler and every model file the document names.
VersionLoads(sport, version) ==
    LET f == MetadataFileName(sport, version) IN
    /\ f \in DOMAIN files
    /\ files[f].type = "metadata"
    /\ \A g \in files[f].model_files : g \in DOMAIN files /\ files[g].type = "model"
    /\ files[f].scaler_file \in DOMAIN files
    /\ files[files[f].scaler_file].type = "scaler"

\* C4 (SpecRegistry): after a sequence of save calls that all succeeded,
\* <sport>_latest.json holds the metadata document of the sport's most recent
\* save, every version saved for the sport can still be loaded, and a version
\* whose id no later save of the sport reused still holds exactly what its
\* save wrote.
C4_LatestAndRollback ==
    (~sv.active /\ \A i \in DOMAIN saves : saves[i].outcome = "ok")
        => \A sport \in Sports :
             \A last \in SavesOf(sport) :
                (\A i \in SavesOf(sport) : i <= last)
                    => /\ LatestFileName(sport) \in DOMAIN files
                       /\ files[LatestFileName(sport)] = saves[last].meta
                       /\ files[MetadataFileName(sport, saves[last].version)] = saves[last].meta
                       /\ \A k \in SavesOf(sport) :
                            /\ VersionLoads(sport, saves[k].version)
                            /\ (\A l \in SavesOf(sport) :
                                    l > k => saves[l].version # saves[k].version)
                                => KeepsContent(saves[k])

\* C4: two saves of one sport have returned, under different version ids.
C4_Witness ==
    /\ ~sv.active
    /\ \A i \in DOMAIN saves : saves[i].outcome = "ok"
    /\ \E i, j \in DOMAIN saves :
         /\ i < j
         /\ SavedOk(saves[i]) /\ SavedOk(saves[j])
         /\ saves[i].sport = saves[j].sport
         /\ saves[i].version # saves[j].version

\* C5 (as claimed; SpecRegistry): a save call that failed leaves in the models
\* directory exactly the files that were there when it was called.
C5_AllOrNothing ==
    (~sv.active /\ saves # <<>> /\ saves[Len(saves)].outcome = "failed")
        => files = saves[Len(saves)].before

\* C6 (as claimed; SpecTrain): no trained variant (nor the blend) has a
\* strictly higher F1 than the variant the run reports as its best.
C6_SelectsMaxF1 ==
    best # "None" => \A i \in DOMAIN results : results[i].f1 <= ReportOf(best).f1

\* C7 (as claimed; SpecTrain): among the variants that tie with the selected
\* one on F1, none has a higher ROC-AUC, and none of equal ROC-AUC comes
\* earlier in the variant order.
C7_TieBreakByRocAuc ==
    (pipeline = "ml-service" /\ best # "None")
        => \A i \in DOMAIN results :
             results[i].f1 = ReportOf(best).f1
                => /\ results[i].roc_auc <= ReportOf(best).roc_auc
                   /\ results[i].roc_auc = ReportOf(best).roc_auc => IndexOf(best) <= i

\* C8 (as claimed; SpecFeatures): the derived features predict computes for a
\* game equal the ones engineer_features computes for a record with the same
\* raw fields.
C8_ServingMatchesTraining ==
    (trainFeat # NoFeatures /\ serveFeat # NoFeatures) => serveFeat = trainFeat

\* C9 (as claimed; SpecFeatures): with an opening spread (an opening total) of
\* zero the movement-as-fraction feature is 0, in training and in serving.
C9_ZeroOpeningGivesZero ==
    /\ (trainFeat # NoFeatures /\ game.openingSpread = 0)
          => trainFeat.spread_movement_pct = Zero
    /\ (trainFeat # NoFeatures /\ game.openingTotal = 0)
          => trainFeat.total_movement_pct = Zero
    /\ (serveFeat # NoFeatures /\ game.openingSpread = 0)
          => serveFeat.spread_movement_pct = Zero
    /\ (serveFeat # NoFeatures /\ game.openingTotal = 0)
          => serveFeat.total_movement_pct = Zero

\* Every artifact file was loaded at startup.
AllLoaded ==
    /\ {"winner", "spread", "summary"} \subseteq DOMAIN models
    /\ {"sport", "home_team", "away_team"} \subseteq DOMAIN encoders

\* C10 (as claimed; SpecServe): with the artifacts loaded, a predict request
\* naming a sport, home team or away team that is not in the fitted code table
\* is answered with a prediction, the unseen category encoded as
\* len(classes_) // 2.
C10_UnseenCategoryFallsBack ==
    (response.status # 0 /\ response.kind = "predict" /\ AllLoaded)
        => LET r == response.request IN
           /\ Unseen(encoders["sport"], r.sport)
                 => /\ response.status = 200
                    /\ response.sport_encoded = Midpoint(encoders["sport"])
           /\ Unseen(encoders["home_team"], r.homeTeam)
                 => /\ response.status = 200
                    /\ response.home_encoded = Midpoint(encoders["home_team"])
           /\ Unseen(encoders["away_team"], r.awayTeam)
                 => /\ response.status = 200
                    /\ response.away_encoded = Midpoint(encoders["away_team"])

\* The endpoints that need the artifacts.
ArtifactEndpoints == {"predict", "predict_batch", "models_info", "get_metrics"}

\* C11 (as claimed; SpecServe): while no complete artifact set is loaded --
\* load_models returned False, having loaded none or only some of the files --
\* every /predict, /predict/batch, /models/info and /metrics request is
\* answered 503.
C11_RejectsUntilLoaded ==
    (serving /\ ~AllLoaded /\ response.kind \in ArtifactEndpoints)
        => response.status = 503

\* C12 (as claimed; SpecServe): after a load_models that failed (it returned
\* False or an exception left it) the caches `models` and `encoders` hold no
\* entry.
C12_FailedLoadLeavesNothing ==
    (started /\ ~AllLoaded) => (models = <<>> /\ encoders = <<>>)

\* The positions of a run that has trained its variants.
AfterTraining == {"trained", "selected", "saving", "saved", "done"}

\* C13 (as claimed; SpecTrain): without the xgboost library the run is not
\* aborted by its absence -- the modules load -- and a run that has trained
\* holds a report of every other variant and none of xgboost.
C13_MissingBoosterIsSkipped ==
    ~HAS_XGBOOST
        => /\ pc # "import_error"
           /\ pc \in AfterTraining
                => /\ "xgboost" \notin Names(results)
                   /\ "random_forest" \in Names(results)

\* The allow-list of the pipeline that made a run.
AllowList(run) ==
    IF run.pipeline = "ml-service" THEN Range(FactorLists) ELSE Range(ALL_FEATURES)

\* The recognized-feature part of the manifest of a run.
RecognizedPart(run) ==
    SelectSeq(run.feature_columns, LAMBDA f : f \in AllowList(run))

\* C14 (as claimed; SpecManifest): two runs of a pipeline, each on a batch of
\* its own, produce manifests with the same recognized-feature part, in the
\* same order, whichever factor keys the records of each batch carry.
C14_ManifestStable ==
    \A i, j \in DOMAIN runs :
        (/\ i < j
         /\ runs[i].pipeline = runs[j].pipeline
         /\ runs[i].outcome = "ok"
         /\ runs[j].outcome = "ok")
            => RecognizedPart(runs[i]) = RecognizedPart(runs[j])

\* The records of the batch of a run that carry a label.
LabelledRecords(run) == {i \in DOMAIN run.records : Labelled(run.records[i])}

\* C15 (as claimed; SpecExtract): on a batch that mixes records with and
\* without a correctness label, extraction completes and returns the feature
\* vectors of exactly the records with a label.
C15_UnlabelledExcluded ==
    \A k \in DOMAIN runs :
        (/\ LabelledRecords(runs[k]) # {}
         /\ LabelledRecords(runs[k]) # DOMAIN runs[k].records)
            => /\ runs[k].outcome = "ok"
               /\ {row.record : row \in runs[k].rows} = LabelledRecords(runs[k])

\* C16 (as claimed; SpecExtract): an extraction that completes returns one
\* feature vector per record with a label, and in it a factor the record does
\* not carry has the median of the column over the batch.
C16_MissingValuesImputed ==
    \A k \in DOMAIN runs :
        runs[k].outcome = "ok"
            => /\ {row.record : row \in runs[k].rows} = LabelledRecords(runs[k])
               /\ \A row \in runs[k].rows :
                    \A c \in DOMAIN row.features \cap DOMAIN OptionalFactors :
                        c \notin DOMAIN runs[k].records[row.record].factors
                            => row.features[c] = Median(Present(runs[k].records, c))

\* The fields of a metadata document.
MetadataFields ==
    {"sport", "model_version", "trained_at", "feature_names", "metrics",
     "model_files", "scaler_file"}

\* The metadata document a returned save call wrote.
MetadataPath(k) ==
    IF k.kind = "save_models" THEN MetadataFileName(k.sport, k.version)
    ELSE ProductionFeaturesPath(k.sport)

\* C17 (as claimed; SpecTrain): after the save of a run has returned, the
\* models directory holds a metadata document with the fields sport,
\* model_version, trained_at, feature_names, metrics, model_files and
\* scaler_file; its metrics cover every trained variant, and the files it
\* names in model_files and scaler_file exist.
C17_SaveWritesCompleteSet ==
    \A i \in DOMAIN saves :
        saves[i].outcome = "ok"
            => /\ MetadataPath(saves[i]) \in DOMAIN files
               /\ LET doc == files[MetadataPath(saves[i])] IN
                  /\ MetadataFields \subseteq DOMAIN doc
                  /\ Names(results) \subseteq doc.metrics
                  /\ doc.model_files # {}
                  /\ \A f \in doc.model_files : f \in DOMAIN files /\ files[f].type = "model"
                  /\ doc.scaler_file \in DOMAIN files
                  /\ files[doc.scaler_file].type = "scaler"

\* The run (save id) a file of the models directory comes from.
OriginOf(content) ==
    IF content.type = "metadata" THEN content.features ELSE content.id

\* The artifact files of a sport that are on disk, whole.
ProductionFilesOf(sport) ==
    {f \in {ProductionModelPath(sport, m) : m \in Range(PipelineModels)}
              \cup {ProductionScalerPath(sport), ProductionFeaturesPath(sport)} :
        f \in DOMAIN files /\ files[f] # Truncated}

\* C18 (as claimed; SpecProduction): while every save so far succeeded, the
\* model, scaler and metadata files a returned save_production_model wrote
\* still hold what it wrote, and the model, scaler and metadata files of a
\* sport on disk all come from one run.
C18_ArtifactSetImmutable ==
    (\A i \in DOMAIN saves : saves[i].outcome = "ok")
        => /\ \A i \in DOMAIN saves :
                LET k == saves[i] IN
                /\ files[ProductionModelPath(k.sport, k.models[1])]
                       = [type |-> "model", name |-> k.models[1], id |-> k.id]
                /\ files[ProductionScalerPath(k.sport)] = [type |-> "scaler", id |-> k.id]
                /\ files[ProductionFeaturesPath(k.sport)] = k.meta
           /\ \A sport \in Sports :
                \A f, g \in ProductionFilesOf(sport) :
                    OriginOf(files[f]) = OriginOf(files[g])

\* Each of the two classes has the two members a stratified split needs.
EnoughToStratify(rows, pos) ==
    /\ Cardinality(rows \cap pos) >= 2
    /\ Cardinality(rows \ pos) >= 2

\* C19 (as claimed; SpecTrain): a variant is fit, or an artifact written,
\* only when the rows handed to the splitter number at least the configured
\* minimum and each class has enough members to stratify; otherwise the run
\* has fit nothing and written nothing.
C19_NoFitOnInsufficientData ==
    (fitted # {} \/ sv.active \/ files # <<>>)
        => /\ Cardinality(X) >= MinRows
           /\ EnoughToStratify(X, positives)

\* C20 (as claimed; SpecTrain): a run that loaded fewer records than the
\* minimum ends with a non-zero exit status, and a run ends with exit status
\* zero only after its save has returned.
C20_ExitStatus ==
    /\ (pc \in {"returned", "exited"} /\ InsufficientData(Cardinality(df), MinRows))
          => exitCode > 0
    /\ exitCode = 0 => \E i \in DOMAIN saves : saves[i].outcome = "ok"

\* The weights are non-negative, add up to exactly 1, and the boosted-tree
\* weight is strictly the largest.
ConvexWeights ==
    LET w == ensemble_weights
    IN  /\ \A v \in Range(BlendVariants) : FLeq(Float(0, 1), w[v])
        /\ FAdd(FAdd(w.random_forest, w.xgboost), w.logistic_regression) = Float(1, 1)
        /\ FLess(w.random_forest, w.xgboost)
        /\ FLess(w.logistic_regression, w.xgboost)

\* 2^-20, about a millionth
Tolerance == [m |-> <<1>>, e |-> 0 - 20]

ResponseKind == IF "kind" \in DOMAIN response THEN response.kind ELSE "none"

\* C22: a request never takes the service down: predict answers a failure
\* with an error response, and predict_batch, once the models are there,
\* returns one entry per game in the order of the request, the entry of a game
\* being what predict alone makes of that game (an error entry naming it when
\* predict fails), with total the number of games and successful the number of
\* entries that are no error entries.
C22_BadRequestContained ==
    /\ ResponseKind = "predict" => serving /\ response.status \in {200, 500, 503}
    /\ ResponseKind = "predict_batch" =>
           /\ serving
           /\ \/ /\ response.status = 503
                 /\ "winner" \notin DOMAIN models \/ "spread" \notin DOMAIN models
              \/ /\ response.status = 200
                 /\ DOMAIN response.predictions = DOMAIN response.games
                 /\ \A i \in DOMAIN response.games :
                        LET g == response.games[i]
                            alone == Predict(g.sport, g.homeTeam, g.awayTeam)
                            entry == response.predictions[i]
                        IN  IF alone.status = 200 THEN entry = alone
                            ELSE /\ "error" \in DOMAIN entry
                                 /\ entry.game = g.awayTeam \o " @ " \o g.homeTeam
                 /\ response.total = Len(response.games)
                 /\ response.successful =
                        Cardinality({i \in DOMAIN response.predictions :
                                        "error" \notin DOMAIN response.predictions[i]})

\* A batch whose first game fails and whose second game is predicted.
C22_Witness ==
    /\ serving
    /\ ResponseKind = "predict_batch"
    /\ response.status = 200
    /\ response.total = 2
    /\ response.successful = 1
    /\ "error" \in DOMAIN response.predictions[1]
    /\ "error" \notin DOMAIN response.predictions[2]

\* The results mappings that hold the same reports as rs, inserted in any order.
Reorderings(rs) == {p \in [DOMAIN rs -> Range(rs)] : Range(p) = Range(rs)}

\* C23: evaluate_and_select_best selects the same variant from the same
\* reports whatever the order in which they were inserted into the mapping.
C23_SelectionIgnoresOrder ==
    (pipeline = "ml-service" /\ best # "None")
        => \A rs \in Reorderings(results) : evaluate_and_select_best(rs) = best

\* C24: once at least one variant is trained, evaluate_and_select_best ends
\* without an exception and returns the name of one of the trained variants,
\* whatever the metric values.
C24_SelectionReturnsAVariant ==
    (pipeline = "ml-service" /\ results # <<>> /\ pc # "trained")
        => /\ best \in Names(results)
           /\ best \in fitted

\* C25: started on the models directory a successful ComprehensiveMLPipeline
\* run wrote into, load_models returns True and /predict does not answer 503.
C25_TrainedArtifactsServe ==
    (started /\ pipeline = "ml-service" /\ pc = "done")
        => /\ "winner" \in DOMAIN models /\ "spread" \in DOMAIN models
           /\ ResponseKind = "load_models" => response.outcome = "True"
           /\ ResponseKind = "predict" => response.status # 503

\* The save_models call that is running, or else the one that ended last.
ThisSave ==
    IF sv.active THEN sv
    ELSE IF saves # <<>> THEN saves[Len(saves)]
    ELSE NoSave

\* The metadata documents on disk that save call s wrote.
DocumentsOf(s) ==
    {p \in DOMAIN files :
        /\ files[p].type = "metadata"
        /\ "model_files" \in DOMAIN files[p]
        /\ files[p].feature_names = s.id}

\* File `name` is on disk as save call s wrote it.
WrittenBy(s, name) ==
    /\ name \in DOMAIN files
    /\ files[name].type \in {"model", "scaler"}
    /\ files[name].id = s.id

\* C26: at every point of a save_models call, and after it crashed between
\* two writes, each metadata document the call has put on disk (the versioned
\* one, the latest alias) names only model and scaler files the call has
\* written already, and the alias is there only with the versioned document.
C26_MetadataNamesWrittenFiles ==
    LET s == ThisSave IN
    s # NoSave =>
        /\ \A p \in DocumentsOf(s) :
               /\ \A name \in files[p].model_files : WrittenBy(s, name)
               /\ WrittenBy(s, files[p].scaler_file)
        /\ LatestFileName(s.sport) \in DocumentsOf(s)
               => /\ MetadataFileName(s.sport, s.version) \in DocumentsOf(s)
                  /\ files[MetadataFileName(s.sport, s.version)]
                         = files[LatestFileName(s.sport)]

\* A save_models call crashed after its versioned metadata and before its alias.
C26_Witness ==
    /\ ~sv.active
    /\ saves # <<>>
    /\ ThisSave.outcome = "failed"
    /\ MetadataFileName(ThisSave.sport, ThisSave.version) \in DocumentsOf(ThisSave)
    /\ LatestFileName(ThisSave.sport) \notin DocumentsOf(ThisSave)

\* C27: in every state of the caches the root endpoint reports models_loaded
\* as true exactly when /predict would not answer 503.
C27_ReadinessAgreesWithPredict ==
    ResponseKind = "root" =>
        \A sport \in RequestSports, homeTeam \in RequestHomeTeams,
           awayTeam \in RequestAwayTeams :
            response.models_loaded <=> Predict(sport, homeTeam, awayTeam).status # 503

\* The file names that carry the tag of `sport`: what either save function
\* can name for it.
TaggedNames(sport) ==
    LET versions == {ModelVersion(t) : t \in 0..MaxTick} IN
    {ModelFileName(sport, m, v) : m \in Range(EnsembleModels), v \in versions}
        \cup {ScalerFileName(sport, v) : v \in versions}
        \cup {MetadataFileName(sport, v) : v \in versions}
        \cup {LatestFileName(sport)}
        \cup {ProductionModelPath(sport, m) : m \in Range(PipelineModels)}
        \cup {ProductionScalerPath(sport), ProductionFeaturesPath(sport)}

\* Path p holds now what it held in the directory `before` (or is absent in both).
Untouched(p, before) ==
    IF p \in DOMAIN before THEN p \in DOMAIN files /\ files[p] = before[p]
    ELSE p \notin DOMAIN files

\* C28: a save for one sport creates or overwrites only files that carry that
\* sport's tag, and every file of every other sport (its latest alias, its
\* versioned files) keeps its content.
C28_OtherSportsUntouched ==
    LET s == ThisSave IN
    s # NoSave =>
        /\ \A p \in DOMAIN files \cup DOMAIN s.before :
               ~Untouched(p, s.before) => p \in TaggedNames(s.sport)
        /\ \A other \in Sports \ {s.sport} :
               \A p \in TaggedNames(other) : Untouched(p, s.before)

\* A save for one sport returned with the files of an earlier save for the
\* other sport on disk.
C28_Witness ==
    /\ ~sv.active
    /\ Len(saves) = 2
    /\ saves[1].sport # saves[2].sport
    /\ saves[1].outcome = "ok"
    /\ saves[2].outcome = "ok"
    /\ LatestFileName(saves[1].sport) \in DOMAIN files
    /\ ~Untouched(LatestFileName(saves[2].sport), saves[2].before)

\* The confidence buckets in the derived features f of a game of confidence c
\* are the claimed ones.
Buckets(f, c) ==
    /\ f.high_confidence \in {0, 1}
    /\ f.medium_confidence \in {0, 1}
    /\ f.high_confidence = 1 <=> c > 70
    /\ f.medium_confidence = 1 <=> (50 <= c /\ c <= 70)
    /\ ~(f.high_confidence = 1 /\ f.medium_confidence = 1)
    /\ (f.high_confidence = 0 /\ f.medium_confidence = 0) <=> c < 50

\* C29: in training and in serving, high_confidence is 1 exactly for a
\* confidence above 70, medium_confidence is 1 exactly for a confidence from 50
\* to 70, the two are never both 1, and both are 0 exactly below 50.
C29_ConfidenceBuckets ==
    /\ trainFeat # NoFeatures => Buckets(trainFeat, game.confidence)
    /\ serveFeat # NoFeatures => Buckets(serveFeat, game.confidence)

\* Both sides derived the buckets of a game of confidence exactly 70.
C29_Witness ==
    /\ trainFeat # NoFeatures
    /\ serveFeat # NoFeatures
    /\ game.confidence = 70
    /\ trainFeat.medium_confidence = 1
    /\ serveFeat.medium_confidence = 1

\* C30: when NFLDataCollector.run or load_prediction_data has returned, by
\* whatever path, close() was called on every connection it opened.
C30_ConnectionsClosed ==
    Returned => conns = {}

====
